---- MODULE Spec2Model ----
(***************************************************************************)
(* Model of github.com/indiependente/pkg:                                  *)
(*   shutdown.Wait / shutdown.WaitWithLogger  (src/shutdown/shutdown.go)   *)
(*   logger.GetLogger / GetConsoleLogger / GetLoggerString and the         *)
(*   levelled terminal calls of FastLogger     (src/logger/logger.go)      *)
(*                                                                         *)
(* The coordinator is modelled as two threads of control per call: the     *)
(* calling goroutine (pc) and the errgroup goroutine (bg).  The process-   *)
(* wide os/signal registry (handlers), the cancellation context (ctxDone)  *)
(* and the caller's termination callback are the environment.              *)
(***************************************************************************)
EXTENDS Integers, Sequences, FiniteSets, TLC

VARIABLES
    pc,            \* position of the calling goroutine inside Wait/WaitWithLogger
    variant,       \* which function is executing: "Wait" or "WaitWithLogger"
    calls,         \* number of Wait/WaitWithLogger calls started so far
    gracefulStop,  \* the call's buffered channel (a sequence, capacity ChanCap)
    handlers,      \* os/signal registry: set of <<channel id, signal>>
    bg,            \* position of the goroutine started by eg.Go
    ctxDone,       \* TRUE once ctx.Done() is closed
    sig,           \* the signal received from gracefulStop ("none" before)
    cancelCalls,   \* times this call invoked cancel()
    extCancels,    \* times somebody else invoked cancel()
    termCalls,     \* times termFn was invoked in this call
    termRet,       \* what termFn returned (Pending while it has not)
    egErr,         \* the error the errgroup holds for eg.Wait()
    result,        \* the value returned by the call (Pending before return)
    events,        \* records written through the logger.Logger argument
    ctrl,          \* control operations performed by the call, in order
    history,       \* one summary record per completed call
    delivered,     \* signals the OS delivered to the process so far
    sigAfterReg,   \* a signal was delivered after this call's registration
    killed,        \* the process died of an unhandled SIGINT/SIGTERM
    globalLevel,   \* zerolog's global level
    lastCtor,      \* last logger constructor called, with its argument
    out,           \* records written by FastLogger terminal calls
    lstate         \* "running", "exited" (Fatal) or "panicked" (Panic)

shutdownVars == <<pc, variant, calls, gracefulStop, handlers, bg, ctxDone, sig,
                  cancelCalls, extCancels, termCalls, termRet, egErr, result,
                  events, ctrl, history, delivered, sigAfterReg, killed>>
loggerVars == <<globalLevel, lastCtor, out, lstate>>
vars == <<shutdownVars, loggerVars>>

----------------------------------------------------------------------------
(* Bounds of the model *)

MaxCalls == 2
MaxSignals == 2
MaxExtCancels == 1
MaxRecords == 2

----------------------------------------------------------------------------
(* Values *)

ChanCap == 1

SIGTERM == "terminated"
SIGINT == "interrupt"
Signals == {SIGTERM, SIGINT}

Variants == {"Wait", "WaitWithLogger"}

\* error values: an interface value that is nil, or a message with an
\* optional wrapped cause (a sequence of length 0 or 1)
Nil == [kind |-> "nil", msg |-> <<>>, cause |-> <<>>]
Pending == [kind |-> "pending", msg |-> <<>>, cause |-> <<>>]
New(text) == [kind |-> "errorString", msg |-> <<text>>, cause |-> <<>>]

ErrTexts == {"disk flush failed", "deadline exceeded"}
TermOutcomes == {Nil} \cup {New(t) : t \in ErrTexts}

Prefix == "could not terminate gracefully"

Unwrap(e) == IF e.cause = <<>> THEN Nil ELSE e.cause[1]

ErrorfSwallow(err) == [kind |-> "wrapError", msg |-> <<Prefix, ": ">>, cause |-> <<>>]

\* fmt.Errorf("could not terminate gracefully: %w", err)
Errorf(err) == [kind |-> "wrapError", msg |-> <<Prefix, ": ">> \o err.msg, cause |-> <<err>>]

----------------------------------------------------------------------------
(* The logger.Logger chain used by WaitWithLogger *)

BaseLogger == [event |-> "", signal |-> ""]
Event(l, e) == [l EXCEPT !.event = e]
Signal(l, s) == [l EXCEPT !.signal = s]
Info(l, m) == [event |-> l.event, signal |-> l.signal, level |-> "info", msg |-> m]

MsgStart == "Starting graceful shutdown process"
MsgPropagating == "Propagating cancellation"
MsgPropagated == "Cancellation propagated"
MsgComplete == "Shutdown process complete"

StatusEventNoSignal(m) == Info(Event(BaseLogger, "shutdown"), m)

\* logger.Event("shutdown").Signal(sig).Info(m)
StatusEvent(m) == Info(Signal(Event(BaseLogger, "shutdown"), sig), m)

----------------------------------------------------------------------------
(* Helpers of the coordinator *)

Alive == ~killed

\* both signal.Notify calls of the current call have run
Registered == <<calls, SIGTERM>> \in handlers /\ <<calls, SIGINT>> \in handlers

SendUnbuffered(q, s) == IF pc = "recv" /\ q = <<>> THEN <<s>> ELSE q

\* os/signal sends without blocking into the channel made with capacity
\* ChanCap: the signal is dropped when the buffer is full
SendNonBlocking(q, s) == IF Len(q) < ChanCap THEN Append(q, s) ELSE q

DoneReadableAlways == TRUE

\* <-ctx.Done() can proceed
DoneReadable == ctxDone

EgWaitReadyEarly == TRUE

\* eg.Wait() can proceed: the goroutine given to eg.Go has returned
EgWaitReady == bg = "done"

AfterRecvSkipsCancel(v) == IF v = "Wait" THEN "cancel" ELSE "join"

\* statement following the receive from gracefulStop
AfterRecv(v) == IF v = "Wait" THEN "cancel" ELSE "log1"

\* statement following cancel()
AfterCancel(v) == IF v = "Wait" THEN "join" ELSE "log3"

Summary(r) == [variant |-> variant, sig |-> sig, ctrl |-> ctrl', events |-> events',
               termRet |-> termRet, cancelCalls |-> cancelCalls,
               termCalls |-> termCalls, result |-> r]

----------------------------------------------------------------------------
(* State after process start *)

ShutdownInit ==
    /\ pc = "idle"
    /\ variant = "Wait"
    /\ calls = 0
    /\ gracefulStop = <<>>
    /\ handlers = {}
    /\ bg = "none"
    /\ ctxDone = FALSE
    /\ sig = "none"
    /\ cancelCalls = 0
    /\ extCancels = 0
    /\ termCalls = 0
    /\ termRet = Pending
    /\ egErr = Nil
    /\ result = Pending
    /\ events = <<>>
    /\ ctrl = <<>>
    /\ history = <<>>
    /\ delivered = 0
    /\ sigAfterReg = FALSE
    /\ killed = FALSE

NoCtor == [fn |-> "none", service |-> "", level |-> -1, name |-> ""]

LoggerInit ==
    /\ globalLevel = "debug"
    /\ lastCtor = NoCtor
    /\ out = <<>>
    /\ lstate = "running"

Init == ShutdownInit /\ LoggerInit

----------------------------------------------------------------------------
(* The calling goroutine: Wait and WaitWithLogger *)

\* entry of Wait / WaitWithLogger: make(chan os.Signal, 1), var eg errgroup.Group.
\* The caller passes either a fresh context or the one of the previous call.
Call(v, fresh) ==
    /\ Alive
    /\ pc \in {"idle", "returned"}
    /\ calls < MaxCalls
    /\ pc' = "notifyTerm"
    /\ variant' = v
    /\ calls' = calls + 1
    /\ gracefulStop' = <<>>
    /\ bg' = "none"
    /\ ctxDone' = IF fresh THEN FALSE ELSE ctxDone
    /\ sig' = "none"
    /\ cancelCalls' = 0
    /\ termCalls' = 0
    /\ termRet' = Pending
    /\ egErr' = Nil
    /\ result' = Pending
    /\ events' = <<>>
    /\ ctrl' = <<>>
    /\ sigAfterReg' = FALSE
    /\ UNCHANGED <<handlers, extCancels, history, delivered, killed, loggerVars>>

\* signal.Notify(gracefulStop, syscall.SIGTERM)
NotifyTerm ==
    /\ Alive
    /\ pc = "notifyTerm"
    /\ handlers' = handlers \cup {<<calls, SIGTERM>>}
    /\ ctrl' = Append(ctrl, "Notify(SIGTERM)")
    /\ pc' = "notifyInt"
    /\ UNCHANGED <<variant, calls, gracefulStop, bg, ctxDone, sig, cancelCalls,
                   extCancels, termCalls, termRet, egErr, result, events, history,
                   delivered, sigAfterReg, killed, loggerVars>>

\* signal.Notify(gracefulStop, syscall.SIGINT)
NotifyInt ==
    /\ Alive
    /\ pc = "notifyInt"
    /\ handlers' = handlers \cup {<<calls, SIGINT>>}
    /\ ctrl' = Append(ctrl, "Notify(SIGINT)")
    /\ pc' = "go"
    /\ UNCHANGED <<variant, calls, gracefulStop, bg, ctxDone, sig, cancelCalls,
                   extCancels, termCalls, termRet, egErr, result, events, history,
                   delivered, sigAfterReg, killed, loggerVars>>

\* eg.Go(func() error { ... })
Go ==
    /\ Alive
    /\ pc = "go"
    /\ bg' = "waitDone"
    /\ ctrl' = Append(ctrl, "Go")
    /\ pc' = "recv"
    /\ UNCHANGED <<variant, calls, gracefulStop, handlers, ctxDone, sig, cancelCalls,
                   extCancels, termCalls, termRet, egErr, result, events, history,
                   delivered, sigAfterReg, killed, loggerVars>>

RecvOrDone ==
    /\ Alive
    /\ pc = "recv"
    /\ gracefulStop # <<>> \/ ctxDone
    /\ sig' = IF gracefulStop # <<>> THEN Head(gracefulStop) ELSE sig
    /\ gracefulStop' = IF gracefulStop # <<>> THEN Tail(gracefulStop) ELSE gracefulStop
    /\ ctrl' = Append(ctrl, "Recv")
    /\ pc' = AfterRecv(variant)
    /\ UNCHANGED <<variant, calls, handlers, bg, ctxDone, cancelCalls, extCancels,
                   termCalls, termRet, egErr, result, events, history, delivered,
                   sigAfterReg, killed, loggerVars>>

\* <-gracefulStop   /   sig := <-gracefulStop
Recv ==
    /\ Alive
    /\ pc = "recv"
    /\ gracefulStop # <<>>
    /\ sig' = Head(gracefulStop)
    /\ gracefulStop' = Tail(gracefulStop)
    /\ ctrl' = Append(ctrl, "Recv")
    /\ pc' = AfterRecv(variant)
    /\ UNCHANGED <<variant, calls, handlers, bg, ctxDone, cancelCalls, extCancels,
                   termCalls, termRet, egErr, result, events, history, delivered,
                   sigAfterReg, killed, loggerVars>>

\* one logger.Event("shutdown").Signal(sig).Info(m) statement of WaitWithLogger
LogStep(at, m, next) ==
    /\ Alive
    /\ pc = at
    /\ events' = Append(events, StatusEvent(m))
    /\ pc' = next
    /\ UNCHANGED <<variant, calls, gracefulStop, handlers, bg, ctxDone, sig,
                   cancelCalls, extCancels, termCalls, termRet, egErr, result, ctrl,
                   history, delivered, sigAfterReg, killed, loggerVars>>

Log1 == LogStep("log1", MsgStart, "log2")
Log2 == LogStep("log2", MsgPropagating, "cancel")
Log3 == LogStep("log3", MsgPropagated, "join")

\* cancel()
Cancel ==
    /\ Alive
    /\ pc = "cancel"
    /\ ctxDone' = TRUE
    /\ cancelCalls' = cancelCalls + 1
    /\ ctrl' = Append(ctrl, "cancel")
    /\ pc' = AfterCancel(variant)
    /\ UNCHANGED <<variant, calls, gracefulStop, handlers, bg, sig, extCancels,
                   termCalls, termRet, egErr, result, events, history, delivered,
                   sigAfterReg, killed, loggerVars>>

\* err := eg.Wait(); if err != nil { return fmt.Errorf(...) }
\* and, in Wait, the return nil that follows
Join ==
    /\ Alive
    /\ pc = "join"
    /\ EgWaitReady
    /\ ctrl' = Append(ctrl, "Wait")
    /\ events' = events
    /\ IF egErr # Nil
         THEN /\ result' = Errorf(egErr)
              /\ pc' = "returned"
              /\ history' = Append(history, Summary(result'))
         ELSE IF variant = "Wait"
                THEN /\ result' = Nil
                     /\ pc' = "returned"
                     /\ history' = Append(history, Summary(result'))
                ELSE /\ pc' = "log4"
                     /\ UNCHANGED <<result, history>>
    /\ UNCHANGED <<variant, calls, gracefulStop, handlers, bg, ctxDone, sig,
                   cancelCalls, extCancels, termCalls, termRet, egErr, delivered,
                   sigAfterReg, killed, loggerVars>>

\* logger...Info("Shutdown process complete"); return nil
Log4 ==
    /\ Alive
    /\ pc = "log4"
    /\ events' = Append(events, StatusEvent(MsgComplete))
    /\ ctrl' = ctrl
    /\ result' = Nil
    /\ pc' = "returned"
    /\ history' = Append(history, Summary(result'))
    /\ UNCHANGED <<variant, calls, gracefulStop, handlers, bg, ctxDone, sig,
                   cancelCalls, extCancels, termCalls, termRet, egErr, delivered,
                   sigAfterReg, killed, loggerVars>>

----------------------------------------------------------------------------
(* The goroutine started by eg.Go *)

BgObserveDoneAgain ==
    /\ Alive
    /\ bg \in {"waitDone", "done"}
    /\ pc # "returned"
    /\ DoneReadable
    /\ bg' = "termFn"
    /\ termCalls' = termCalls + 1
    /\ termRet' = Pending
    /\ UNCHANGED <<pc, variant, calls, gracefulStop, handlers, ctxDone, sig,
                   cancelCalls, extCancels, egErr, result, events, ctrl,
                   history, delivered, sigAfterReg, killed, loggerVars>>

\* <-ctx.Done() returns and termFn(ctx) is invoked
BgObserveDone ==
    /\ Alive
    /\ bg = "waitDone"
    /\ DoneReadable
    /\ bg' = "termFn"
    /\ termCalls' = termCalls + 1
    /\ UNCHANGED <<pc, variant, calls, gracefulStop, handlers, ctxDone, sig,
                   cancelCalls, extCancels, termRet, egErr, result, events, ctrl,
                   history, delivered, sigAfterReg, killed, loggerVars>>

\* termFn(ctx) returns e; the goroutine returns it and the errgroup keeps it
TermFnReturn(e) ==
    /\ Alive
    /\ bg = "termFn"
    /\ termRet' = e
    /\ egErr' = e
    /\ bg' = "done"
    /\ UNCHANGED <<pc, variant, calls, gracefulStop, handlers, ctxDone, sig,
                   cancelCalls, extCancels, termCalls, result, events, ctrl,
                   history, delivered, sigAfterReg, killed, loggerVars>>

----------------------------------------------------------------------------
(* Environment *)

\* The OS delivers signal s.  With no channel registered for s the default
\* action ends the process; otherwise os/signal sends s to the registered
\* channels without blocking.
Deliver(s) ==
    /\ Alive
    /\ delivered < MaxSignals
    /\ delivered' = delivered + 1
    /\ IF \E h \in handlers : h[2] = s
         THEN /\ killed' = killed
              /\ gracefulStop' = IF <<calls, s>> \in handlers
                                   THEN SendNonBlocking(gracefulStop, s)
                                   ELSE gracefulStop
              /\ sigAfterReg' = (sigAfterReg \/ Registered)
         ELSE /\ killed' = TRUE
              /\ UNCHANGED <<gracefulStop, sigAfterReg>>
    /\ UNCHANGED <<pc, variant, calls, handlers, bg, ctxDone, sig, cancelCalls,
                   extCancels, termCalls, termRet, egErr, result, events, ctrl,
                   history, loggerVars>>

\* another part of the service invokes the same context.CancelFunc
ExternalCancel ==
    /\ Alive
    /\ extCancels < MaxExtCancels
    /\ extCancels' = extCancels + 1
    /\ ctxDone' = TRUE
    /\ UNCHANGED <<pc, variant, calls, gracefulStop, handlers, bg, sig, cancelCalls,
                   termCalls, termRet, egErr, result, events, ctrl, history,
                   delivered, sigAfterReg, killed, loggerVars>>

MainStep ==
    \/ NotifyTerm
    \/ NotifyInt
    \/ Go
    \/ Recv
    \/ Log1
    \/ Log2
    \/ Cancel
    \/ Log3
    \/ Join
    \/ Log4

Next ==
    \/ \E v \in Variants, fresh \in BOOLEAN : Call(v, fresh)
    \/ NotifyTerm
    \/ NotifyInt
    \/ Go
    \/ Recv
    \/ Log1
    \/ Log2
    \/ Cancel
    \/ Log3
    \/ Join
    \/ Log4
    \/ BgObserveDone
    \/ \E e \in TermOutcomes : TermFnReturn(e)
    \/ \E s \in Signals : Deliver(s)
    \/ ExternalCancel

Spec == Init /\ [][Next]_vars

\* The Go scheduler runs every runnable goroutine: each enabled step of the
\* calling goroutine and of the errgroup goroutine is eventually taken.
\* Nothing forces a new call, a signal, an external cancel or the return of
\* the caller's callback.
FairSpec ==
    /\ Spec
    /\ WF_vars(MainStep)
    /\ WF_vars(BgObserveDone)

----------------------------------------------------------------------------
(* The logger package: levels and constructors *)

\* type LogLevel int, const ( DEBUG LogLevel = iota ... )
DEBUG == 0
INFO == 1
WARNING == 2
ERROR == 3
FATAL == 4
PANIC == 5
DISABLED == 6
LogLevels == {DEBUG, INFO, WARNING, ERROR, FATAL, PANIC, DISABLED}

Services == {"svc"}

\* level names handed to GetLoggerString / ParseLogLevel
LevelNames == {"DEBUG", "INFO", "WARNING", "ERROR", "FATAL", "PANIC", "DISABLED",
               "warning", "Debug", "verbose", ""}

\* strings.ToUpper on the names above
ToUpper(n) ==
    CASE n = "warning" -> "WARNING"
      [] n = "Debug" -> "DEBUG"
      [] n = "verbose" -> "VERBOSE"
      [] OTHER -> n

\* zerolog levels, by name, and their order (zerolog.DebugLevel ... zerolog.Disabled)
ZRank(z) ==
    CASE z = "debug" -> 0
      [] z = "info" -> 1
      [] z = "warn" -> 2
      [] z = "error" -> 3
      [] z = "fatal" -> 4
      [] z = "panic" -> 5
      [] z = "disabled" -> 7

\* the zerolog level passed to zerolog.SetGlobalLevel by GetLogger's switch
GetLoggerLevel(l) ==
    CASE l = DEBUG -> "debug"
      [] l = INFO -> "info"
      [] l = WARNING -> "debug"
      [] l = ERROR -> "debug"
      [] l = FATAL -> "debug"
      [] l = PANIC -> "debug"
      [] l = DISABLED -> "disabled"
      [] OTHER -> globalLevel

\* the zerolog level passed to zerolog.SetGlobalLevel by GetConsoleLogger's switch
GetConsoleLoggerLevel(l) ==
    CASE l = DEBUG -> "debug"
      [] l = INFO -> "info"
      [] l = WARNING -> "debug"
      [] l = ERROR -> "debug"
      [] l = FATAL -> "debug"
      [] l = PANIC -> "debug"
      [] l = DISABLED -> "disabled"
      [] OTHER -> globalLevel

\* the zerolog level passed to zerolog.SetGlobalLevel by GetLoggerString's switch
GetLoggerStringLevel(n) ==
    LET u == ToUpper(n) IN
    CASE u = "DEBUG" -> "debug"
      [] u = "INFO" -> "info"
      [] u = "WARNING" -> "warn"
      [] u = "ERROR" -> "error"
      [] u = "FATAL" -> "fatal"
      [] u = "PANIC" -> "panic"
      [] u = "DISABLED" -> "disabled"
      [] OTHER -> "info"

\* ParseLogLevel
ParseLogLevel(n) ==
    LET u == ToUpper(n) IN
    CASE u = "DEBUG" -> DEBUG
      [] u = "INFO" -> INFO
      [] u = "WARNING" -> WARNING
      [] u = "ERROR" -> ERROR
      [] u = "FATAL" -> FATAL
      [] u = "PANIC" -> PANIC
      [] u = "DISABLED" -> DISABLED
      [] OTHER -> INFO

\* the levels of FastLogger's terminal calls Debug, Info, Warn, Error, Fatal, Panic
TerminalLevels == {"debug", "info", "warn", "error", "fatal", "panic"}

\* the LogLevel each terminal call stands for
LevelOf(z) ==
    CASE z = "debug" -> DEBUG
      [] z = "info" -> INFO
      [] z = "warn" -> WARNING
      [] z = "error" -> ERROR
      [] z = "fatal" -> FATAL
      [] z = "panic" -> PANIC

\* zerolog writes an event of level z only at or above the global level
Should(z) == ZRank(z) >= ZRank(globalLevel)

GetLogger(service, l) ==
    /\ lstate = "running"
    /\ globalLevel' = GetLoggerLevel(l)
    /\ lastCtor' = [fn |-> "GetLogger", service |-> service, level |-> l, name |-> ""]
    /\ UNCHANGED <<out, lstate, shutdownVars>>

GetConsoleLogger(service, l) ==
    /\ lstate = "running"
    /\ globalLevel' = GetConsoleLoggerLevel(l)
    /\ lastCtor' = [fn |-> "GetConsoleLogger", service |-> service, level |-> l, name |-> ""]
    /\ UNCHANGED <<out, lstate, shutdownVars>>

GetLoggerString(service, n) ==
    /\ lstate = "running"
    /\ globalLevel' = GetLoggerStringLevel(n)
    /\ lastCtor' = [fn |-> "GetLoggerString", service |-> service, level |-> -1, name |-> n]
    /\ UNCHANGED <<out, lstate, shutdownVars>>

\* (l *FastLogger) Debug/Info/Warn/Error/Fatal/Panic on a constructed logger:
\* the record is written when its level passes the global level; Fatal then
\* exits the process and Panic panics, written or not
Terminal(z) ==
    /\ lstate = "running"
    /\ lastCtor.fn # "none"
    /\ IF Should(z)
         THEN /\ Len(out) < MaxRecords
              /\ out' = Append(out, [level |-> z, service |-> lastCtor.service])
         ELSE out' = out
    /\ lstate' = CASE z = "fatal" -> "exited"
                   [] z = "panic" -> "panicked"
                   [] OTHER -> lstate
    /\ UNCHANGED <<globalLevel, lastCtor, shutdownVars>>

LoggerNext ==
    \/ \E service \in Services, l \in LogLevels : GetLogger(service, l)
    \/ \E service \in Services, l \in LogLevels : GetConsoleLogger(service, l)
    \/ \E service \in Services, n \in LevelNames : GetLoggerString(service, n)
    \/ \E z \in TerminalLevels : Terminal(z)

LoggerSpec == Init /\ [][LoggerNext]_vars

----------------------------------------------------------------------------
(* Properties *)

Returned == pc = "returned"

IsPrefix(a, b) == Len(a) <= Len(b) /\ SubSeq(b, 1, Len(a)) = a

ControlSeq == <<"Notify(SIGTERM)", "Notify(SIGINT)", "Go", "Recv", "cancel", "Wait">>

FirstThree(s) ==
    << [event |-> "shutdown", signal |-> s, level |-> "info", msg |-> MsgStart],
       [event |-> "shutdown", signal |-> s, level |-> "info", msg |-> MsgPropagating],
       [event |-> "shutdown", signal |-> s, level |-> "info", msg |-> MsgPropagated] >>

FourEvents(s) ==
    Append(FirstThree(s),
           [event |-> "shutdown", signal |-> s, level |-> "info", msg |-> MsgComplete])

\* C1: in every call of Wait or WaitWithLogger that has returned, the result
\* is nil exactly when the termination callback returned nil; when the
\* callback returned an error E the result is a non-nil error whose message
\* is the fixed prefix followed by E's message and whose unwrapped cause is E.
C1_ResultWrapsCallbackError ==
    Returned =>
        /\ (result = Nil) <=> (termRet = Nil)
        /\ termRet # Nil =>
              /\ result # Nil
              /\ Unwrap(result) = termRet
              /\ result.msg = <<Prefix, ": ">> \o termRet.msg

C1_Witness ==
    /\ Returned
    /\ termRet = New("disk flush failed")
    /\ result.kind = "wrapError"

\* C2: the termination callback is invoked at most once at every point of a
\* call and the call's own cancel at most once; when the call has returned
\* the callback was invoked exactly once and the call invoked cancel exactly
\* once, also when the context was cancelled externally as well.
C2_CallbackAndCancelOnce ==
    /\ termCalls <= 1
    /\ cancelCalls <= 1
    /\ Returned => termCalls = 1 /\ cancelCalls = 1

C2_Witness ==
    /\ Returned
    /\ variant = "Wait"
    /\ calls = 1
    /\ extCancels = 1
    /\ cancelCalls = 1
    /\ termCalls = 1

\* C3: whenever a call has returned, a signal has been received, the call has
\* invoked cancel, and the background goroutine has finished with the
\* callback's return value in hand.
C3_ReturnAfterBackgroundTask ==
    Returned =>
        /\ sig \in Signals
        /\ cancelCalls >= 1
        /\ ctxDone
        /\ bg = "done"
        /\ termRet # Pending

C3_Witness == Returned /\ variant = "Wait" /\ bg = "done"

\* C4: if the callback does not run forever, then a signal delivered after the
\* call's registration (also while the caller has not yet reached its
\* receive) leads to the call returning, and a returned call has invoked
\* cancel exactly once.
C4_SignalLeadsToReturn ==
    ([]<>(bg # "termFn")) =>
        /\ sigAfterReg ~> Returned
        /\ [](Returned => cancelCalls = 1)

C4_Witness ==
    /\ Returned
    /\ sigAfterReg
    /\ extCancels = 1
    /\ cancelCalls = 1

\* C5: a context cancelled before any signal was received makes a waiting
\* background goroutine invoke the callback, once; a call returns only after
\* receiving a signal, and a caller blocked on an empty signal queue stays
\* blocked whatever else happens.
C5_ExternalCancelDoesNotReturn ==
    /\ [](termCalls <= 1)
    /\ [](Returned => sig \in Signals)
    /\ [][(pc = "recv" /\ gracefulStop = <<>> /\ gracefulStop' = <<>>) => pc' = "recv"]_vars
    /\ (ctxDone /\ bg = "waitDone" /\ sig = "none") ~> (termCalls = 1)

C5_Witness ==
    /\ pc = "recv"
    /\ gracefulStop = <<>>
    /\ sig = "none"
    /\ cancelCalls = 0
    /\ ctxDone
    /\ bg = "done"
    /\ termCalls = 1

\* C6 as stated: every returned WaitWithLogger call has emitted exactly the
\* four status events, in order, each with event "shutdown" and the received
\* signal, whether the callback succeeded or failed.
C6_FourEventsAlways ==
    (Returned /\ variant = "WaitWithLogger") => events = FourEvents(sig)

\* C6 amended: every returned WaitWithLogger call has emitted, in order and
\* each with event "shutdown" and the received signal, the four status events
\* when the callback succeeded and only the first three when it failed.
C6_EventsByOutcome ==
    (Returned /\ variant = "WaitWithLogger") =>
        /\ sig \in Signals
        /\ events = IF termRet = Nil THEN FourEvents(sig) ELSE FirstThree(sig)

C6_Witness ==
    /\ Returned
    /\ variant = "WaitWithLogger"
    /\ termRet # Nil
    /\ Len(events) = 3

\* C7: when a call has returned, no signal registration is left in the
\* process-wide registry.
C7_NoRegistrationLeft == Returned => handlers = {}

\* C8: after GetLogger(service, L) or GetConsoleLogger(service, L) a terminal
\* call is written exactly when its level is L or above, and the global level
\* is the one GetLoggerString sets for every name that parses to L.
C8_ThresholdIsRequestedLevel ==
    lastCtor.fn \in {"GetLogger", "GetConsoleLogger"} =>
        /\ \A z \in TerminalLevels : Should(z) <=> LevelOf(z) >= lastCtor.level
        /\ \A n \in LevelNames :
              ParseLogLevel(n) = lastCtor.level => globalLevel = GetLoggerStringLevel(n)

\* C9: whenever the callback has been invoked in a call, the context is
\* cancelled, whoever cancelled it.
C9_CallbackAfterDone ==
    (termCalls > 0 \/ bg \in {"termFn", "done"}) => ctxDone

C9_Witness ==
    /\ bg = "termFn"
    /\ cancelCalls = 0
    /\ extCancels = 1
    /\ sig = "none"

\* C10: the control operations of a call are always a prefix of one fixed
\* sequence, and any two completed calls, whatever their variant and received
\* signal, performed the same control operations, invoked cancel and the
\* callback equally often, and returned the same value for the same callback
\* return value.
C10_SameControlAndResult ==
    /\ IsPrefix(ctrl, ControlSeq)
    /\ \A i, j \in 1..Len(history) :
          /\ history[i].ctrl = ControlSeq
          /\ history[i].ctrl = history[j].ctrl
          /\ history[i].cancelCalls = history[j].cancelCalls
          /\ history[i].termCalls = history[j].termCalls
          /\ history[i].termRet = history[j].termRet
                => history[i].result = history[j].result

C10_Witness ==
    \E i, j \in 1..Len(history) :
        /\ history[i].variant = "Wait"
        /\ history[j].variant = "WaitWithLogger"
        /\ history[i].sig # history[j].sig
        /\ history[i].termRet = history[j].termRet
        /\ history[i].termRet # Nil

====
